---- MODULE Spec2Model ----
(***************************************************************************)
(* A model of src/main.py: the /evaluate pipeline of the shadowing         *)
(* backend.  One request is a coroutine that suspends at every await       *)
(* (file.read, the three kinds of AssemblyAI exchange, asyncio.sleep, the   *)
(* DeepSeek exchange); one action models the code between two awaits.      *)
(* JSON values are tagged records [t, v]; a Python str on which the code   *)
(* does character work (the transcript) is a tuple of characters.          *)
(***************************************************************************)
EXTENDS Integers, Sequences, FiniteSets, TLC

VARIABLES
    ASSEMBLYAI_API_KEY, \* per request: the module global in the serving process
    DEEPSEEK_API_KEY,   \* per request: the module global in the serving process
    pc,                 \* per request: the await the coroutine is suspended at
    sentence_id,        \* per request: the form field
    file,               \* per request: the uploaded payload
    ref_text,           \* per request: local of evaluate
    upload_url,         \* per request: local of transcribe_with_assemblyai
    transcript_id,      \* per request: local of transcribe_with_assemblyai
    poll_data,          \* per request: the local data of transcribe_with_assemblyai
    user_text,          \* per request: local of evaluate
    calls,              \* per request: the network exchanges issued, in order
    sleeps,             \* per request: the asyncio.sleep(1) calls made
    judgment,           \* per request: the value grade_with_deepseek returned
    exc,                \* per request: the exception raised inside the request
    response            \* per request: what the caller receives

vars == <<ASSEMBLYAI_API_KEY, DEEPSEEK_API_KEY, pc, sentence_id, file, ref_text,
          upload_url, transcript_id, poll_data, user_text, calls, sleeps, judgment,
          exc, response>>

----------------------------------------------------------------------------
(* Bounds and input sets *)

MaxTextLen == 2

Reqs == {"r1", "r2"}

Chars == {" ", "a"}

RECURSIVE SeqsUpTo(_, _)
SeqsUpTo(S, n) ==
    IF n = 0 THEN {<<>>}
    ELSE LET shorter == SeqsUpTo(S, n - 1)
         IN  shorter \cup {Append(s, c) : s \in shorter, c \in S}

Texts == SeqsUpTo(Chars, MaxTextLen)

SentenceIds == {"s1", "s3", "s9"}

Audios == {<<>>, <<7>>}

Keys == {"", "k"}

Urls == {"u1", "u2"}

JobIds == {"j1", "j2"}

----------------------------------------------------------------------------
(* JSON values *)

Str(s) == [t |-> "str", v |-> s]

Num(i) == [t |-> "int", v |-> i]

List(l) == [t |-> "list", v |-> l]

Obj(f) == [t |-> "object", v |-> f]

Null == [t |-> "null", v |-> 0]

\* a body that is not JSON at all: .json() / json.loads raise on it
NotJson == [t |-> "notjson", v |-> 0]

HasKey(j, k) == j.t = "object" /\ k \in DOMAIN j.v

\* Python's None, and Some(x) for a present value
None == <<>>

Some(x) == <<x>>

Ok(x) == [ok |-> TRUE, val |-> x, exc |-> ""]

Raise(e) == [ok |-> FALSE, val |-> Null, exc |-> e]

\* an HTTP reply: status_code 0 stands for a transport failure or a timeout of
\* the 60 s client timeout, on which client.post / client.get itself raises
Reply(code, json) == [status_code |-> code, json |-> json]

----------------------------------------------------------------------------
(* The reference catalog *)

LESSON_DB ==
    << [id |-> "s1", text |-> "Hola, soy Ana."],
       [id |-> "s2", text |-> "Hoy vamos a practicar algunas frases basicas en espanol."],
       [id |-> "s3", text |-> "Primero, repite conmigo: Como te llamas? Me llamo Ana."] >>

find_sentence_by_id_first(sid) == Some(LESSON_DB[1])

find_sentence_by_id(sid) ==
    LET hits == SelectSeq(LESSON_DB, LAMBDA s : s.id = sid)
    IN  IF hits = <<>> THEN None ELSE Some(Head(hits))

----------------------------------------------------------------------------
(* Pure parts of transcribe_with_assemblyai *)

IsSpace(c) == c = " "

RECURSIVE lstrip(_)
lstrip(s) == IF s # <<>> /\ IsSpace(Head(s)) THEN lstrip(Tail(s)) ELSE s

RECURSIVE rstrip(_)
rstrip(s) ==
    IF s # <<>> /\ IsSpace(s[Len(s)]) THEN rstrip(SubSeq(s, 1, Len(s) - 1)) ELSE s

\* str.strip()
strip(s) == rstrip(lstrip(s))

\* resp.raise_for_status(); resp.json()  (the await itself raises on transport failure)
ResponseJson(reply) ==
    IF reply.status_code = 0 THEN Raise("TransportError")
    ELSE IF reply.status_code >= 400 THEN Raise("HTTPStatusError")
    ELSE IF reply.json.t = "notjson" THEN Raise("JSONDecodeError")
    ELSE Ok(reply.json)

\* d[k] on a parsed JSON value d
Subscript(d, k) ==
    IF d.t = "object"
    THEN IF k \in DOMAIN d.v THEN Ok(d.v[k]) ELSE Raise("KeyError")
    ELSE Raise("TypeError")

\* d[0] on a parsed JSON value d
First(d) ==
    IF d.t = "list"
    THEN IF d.v # <<>> THEN Ok(d.v[1]) ELSE Raise("IndexError")
    ELSE IF d.t = "object" THEN Raise("KeyError")
    ELSE Raise("TypeError")

\* upload_resp.raise_for_status(); upload_resp.json()["upload_url"]
UploadResult(reply) ==
    LET j == ResponseJson(reply)
    IN  IF j.ok THEN Subscript(j.val, "upload_url") ELSE j

\* create_resp.raise_for_status(); create_resp.json()["id"]
CreateResult(reply) ==
    LET j == ResponseJson(reply)
    IN  IF j.ok THEN Subscript(j.val, "id") ELSE j

MaxPolls_one_more == 30 + 1

\* for _ in range(30)
MaxPolls == 30

\* data["text"].strip(): no default for a reply without text
CompletedText_subscript(data) ==
    IF ~ HasKey(data, "text") THEN Raise("KeyError")
    ELSE IF data.v["text"].t = "str" THEN Ok(strip(data.v["text"].v))
    ELSE Raise("AttributeError")

\* data.get("text", "").strip()
CompletedText(data) ==
    IF ~ HasKey(data, "text") THEN Ok(strip(<<>>))
    ELSE IF data.v["text"].t = "str" THEN Ok(strip(data.v["text"].v))
    ELSE Raise("AttributeError")

\* the elif branch for status "error" never matches
PollResult_error_ignored(reply) ==
    LET j == ResponseJson(reply)
    IN  IF ~ j.ok THEN [kind |-> "raise", text |-> <<>>, exc |-> j.exc]
        ELSE IF j.val.t # "object"
        THEN [kind |-> "raise", text |-> <<>>, exc |-> "AttributeError"]
        ELSE IF HasKey(j.val, "status") /\ j.val.v["status"] = Str("completed")
        THEN LET txt == CompletedText(j.val)
             IN  IF txt.ok THEN [kind |-> "return", text |-> txt.val, exc |-> ""]
                 ELSE [kind |-> "raise", text |-> <<>>, exc |-> txt.exc]
        ELSE [kind |-> "sleep", text |-> <<>>, exc |-> ""]

\* one pass of the loop body up to the sleep: what the pass does with the reply
PollResult(reply) ==
    LET j == ResponseJson(reply)
    IN  IF ~ j.ok THEN [kind |-> "raise", text |-> <<>>, exc |-> j.exc]
        ELSE IF j.val.t # "object"
        THEN [kind |-> "raise", text |-> <<>>, exc |-> "AttributeError"]
        ELSE IF HasKey(j.val, "status") /\ j.val.v["status"] = Str("completed")
        THEN LET txt == CompletedText(j.val)
             IN  IF txt.ok THEN [kind |-> "return", text |-> txt.val, exc |-> ""]
                 ELSE [kind |-> "raise", text |-> <<>>, exc |-> txt.exc]
        ELSE IF HasKey(j.val, "status") /\ j.val.v["status"] = Str("error")
        THEN [kind |-> "raise", text |-> <<>>,
              exc |-> "RuntimeError: Transcription error from AssemblyAI"]
        ELSE [kind |-> "sleep", text |-> <<>>, exc |-> ""]

----------------------------------------------------------------------------
(* Pure parts of grade_with_deepseek and of evaluate *)

\* json.loads(content): a content string is modelled by the JSON value it
\* spells, or by NotJson when it spells none
json_loads(content) ==
    IF content.t # "str" THEN Raise("TypeError")
    ELSE IF content.v.t = "notjson" THEN Raise("JSONDecodeError")
    ELSE Ok(content.v)

\* resp.raise_for_status(); data = resp.json();
\* json.loads(data["choices"][0]["message"]["content"])
GradeResult(reply) ==
    LET data    == ResponseJson(reply)
        choices == IF data.ok THEN Subscript(data.val, "choices") ELSE data
        choice  == IF choices.ok THEN First(choices.val) ELSE choices
        message == IF choice.ok THEN Subscript(choice.val, "message") ELSE choice
        content == IF message.ok THEN Subscript(message.val, "content") ELSE message
    IN  IF content.ok THEN json_loads(content.val) ELSE content

\* d[k] = x on a dict d
SetItem(d, k, x) == [j \in DOMAIN d \cup {k} |-> IF j = k THEN x ELSE d[j]]

SetItemKeep(d, k, x) == [j \in DOMAIN d \cup {k} |-> IF j \in DOMAIN d THEN d[j] ELSE x]

\* dict.setdefault in place of the two assignments
Merge_setdefault(eval_result, sid, text) ==
    IF eval_result.t = "object"
    THEN Ok(Obj(SetItemKeep(SetItemKeep(eval_result.v, "sentence_id", Str(sid)),
                            "user_text", Str(text))))
    ELSE Raise("TypeError")

\* eval_result["sentence_id"] = sentence_id; eval_result["user_text"] = user_text
Merge(eval_result, sid, text) ==
    IF eval_result.t = "object"
    THEN Ok(Obj(SetItem(SetItem(eval_result.v, "sentence_id", Str(sid)),
                        "user_text", Str(text))))
    ELSE Raise("TypeError")

\* raise HTTPException(status_code=code, detail=detail), as FastAPI renders it
HTTPException(code, detail) ==
    [status_code |-> code, body |-> Obj("detail" :> Str(detail))]

\* an exception that leaves evaluate: the server's generic reply
UnhandledError == [status_code |-> 500, body |-> Str("Internal Server Error")]

Success(result) == [status_code |-> 200, body |-> result]

NoResponse == [status_code |-> 0, body |-> Null]

NoJudgment == [t |-> "none", v |-> 0]

\* data before the first status reply was parsed
NoData == [t |-> "unbound", v |-> 0]

not_bytes_never(audio_bytes) == FALSE

\* not audio_bytes
not_bytes(audio_bytes) == audio_bytes = <<>>

----------------------------------------------------------------------------
(* What the providers may answer *)

UploadReplies ==
    {Reply(0, NotJson), Reply(500, NotJson), Reply(200, NotJson), Reply(200, Obj(<<>>))}
    \cup {Reply(200, Obj("upload_url" :> Str(u))) : u \in Urls}

CreateReplies ==
    {Reply(0, NotJson), Reply(500, NotJson), Reply(200, NotJson), Reply(200, Obj(<<>>))}
    \cup {Reply(200, Obj("id" :> Str(j))) : j \in JobIds}

PollReplies ==
    {Reply(0, NotJson), Reply(500, NotJson), Reply(200, NotJson), Reply(200, List(<<>>)),
     Reply(200, Obj(<<>>)),
     Reply(200, Obj("status" :> Str("queued"))),
     Reply(200, Obj("status" :> Str("processing"))),
     Reply(200, Obj("status" :> Str("error") @@ "error" :> Str("bad audio"))),
     Reply(200, Obj("status" :> Str("error") @@ "error" :> Str("no speech"))),
     Reply(200, Obj("status" :> Str("completed"))),
     Reply(200, Obj("status" :> Str("completed") @@ "text" :> Null))}
    \cup {Reply(200, Obj("status" :> Str("completed") @@ "text" :> Str(t))) : t \in Texts}

\* the seven fields the system prompt asks for; the levels stand for the three
\* Chinese level words of the prompt (high / medium / low)
RequiredFields ==
    {"overall_score", "accuracy", "fluency", "integrity",
     "missing_words", "mispronounced_words", "suggestions"}

Levels == {"gao", "zhong", "di"}

GoodJudgment ==
    "overall_score" :> Num(88) @@ "accuracy" :> Str("zhong") @@ "fluency" :> Str("gao")
    @@ "integrity" :> Str("gao") @@ "missing_words" :> List(<<>>)
    @@ "mispronounced_words" :> List(<<>>) @@ "suggestions" :> List(<<"a", "b", "c">>)

Without(d, k) == [j \in DOMAIN d \ {k} |-> d[j]]

Judgments ==
    {GoodJudgment}
    \cup {Without(GoodJudgment, k) : k \in RequiredFields}
    \cup {SetItem(GoodJudgment, "overall_score", Num(n)) : n \in {-1, 0, 100, 101}}
    \cup {SetItem(GoodJudgment, "overall_score", Str(<<"a">>)),
          SetItem(GoodJudgment, "accuracy", Str("excelente")),
          SetItem(SetItem(GoodJudgment, "sentence_id", Str("s9")),
                  "user_text", Str(<<"a", " ", "a">>))}

Contents ==
    {NotJson, List(<<>>), Str(<<"a">>), Num(5), Null} \cup {Obj(j) : j \in Judgments}

Envelope(c) ==
    Reply(200, Obj("choices" :> List(<<Obj("message" :> Obj("content" :> Str(c)))>>)))

GradeReplies ==
    {Reply(0, NotJson), Reply(500, NotJson), Reply(200, NotJson), Reply(200, Obj(<<>>))}
    \cup {Envelope(c) : c \in Contents}

----------------------------------------------------------------------------
(* The exchanges a request has issued *)

Call(kind, arg) == [kind |-> kind, arg |-> arg, out |-> "inflight"]

\* the last exchange got its reply: record how it ended
Settle(log, out) == [log EXCEPT ![Len(log)].out = out]

NumCalls(r, kind) == Cardinality({i \in DOMAIN calls[r] : calls[r][i].kind = kind})

TranscriberCalls(r) == NumCalls(r, "upload") + NumCalls(r, "create") + NumCalls(r, "poll")

GraderCalls(r) == NumCalls(r, "grade")

----------------------------------------------------------------------------
(* State *)

Init ==
    /\ ASSEMBLYAI_API_KEY \in [Reqs -> Keys]
    /\ DEEPSEEK_API_KEY \in [Reqs -> Keys]
    /\ pc = [r \in Reqs |-> IF r = "r1" THEN "idle" ELSE "off"]
    /\ sentence_id = [r \in Reqs |-> ""]
    /\ file = [r \in Reqs |-> <<>>]
    /\ ref_text = [r \in Reqs |-> ""]
    /\ upload_url = [r \in Reqs |-> ""]
    /\ transcript_id = [r \in Reqs |-> ""]
    /\ poll_data = [r \in Reqs |-> NoData]
    /\ user_text = [r \in Reqs |-> <<>>]
    /\ calls = [r \in Reqs |-> <<>>]
    /\ sleeps = [r \in Reqs |-> 0]
    /\ judgment = [r \in Reqs |-> NoJudgment]
    /\ exc = [r \in Reqs |-> ""]
    /\ response = [r \in Reqs |-> NoResponse]

\* the request ends: the caller receives resp; e is the exception behind it
Finish(r, resp, e) ==
    /\ pc' = [pc EXCEPT ![r] = "done"]
    /\ response' = [response EXCEPT ![r] = resp]
    /\ exc' = [exc EXCEPT ![r] = e]

TranscriptionFailed_leaky == HTTPException(500, "Transcription timeout")

\* line 201
TranscriptionFailed == HTTPException(500, "Transcription failed")

\* line 208
GradingFailed == HTTPException(500, "Grading failed")

RuntimeErrors ==
    {"RuntimeError: ASSEMBLYAI_API_KEY", "RuntimeError: DEEPSEEK_API_KEY",
     "RuntimeError: Transcription error from AssemblyAI",
     "RuntimeError: Transcription timeout"}

except_RuntimeError(e) == e \in RuntimeErrors

\* except Exception as e: every exception the two calls can raise is caught
except_Exception(e) == TRUE

\* line 197-201: what evaluate answers when transcribe_with_assemblyai raises e
OnTranscribeError(e) == IF except_Exception(e) THEN TranscriptionFailed ELSE UnhandledError

\* line 204-208: what evaluate answers when grade_with_deepseek raises e
OnGradeError(e) == IF except_Exception(e) THEN GradingFailed ELSE UnhandledError

\* line 186-192: the request arrives; the sentence is looked up before the
\* payload is read
Evaluate(r, sid, payload) ==
    /\ pc[r] = "idle"
    /\ sentence_id' = [sentence_id EXCEPT ![r] = sid]
    /\ file' = [file EXCEPT ![r] = payload]
    /\ LET ref_sentence == find_sentence_by_id(sid)
       IN  IF ref_sentence = None
           THEN /\ Finish(r, HTTPException(404, "Sentence not found"), "HTTPException")
                /\ UNCHANGED ref_text
           ELSE /\ ref_text' = [ref_text EXCEPT ![r] = ref_sentence[1].text]
                /\ pc' = [pc EXCEPT ![r] = "read"]
                /\ UNCHANGED <<response, exc>>
    /\ UNCHANGED <<ASSEMBLYAI_API_KEY, DEEPSEEK_API_KEY, upload_url, transcript_id,
                   user_text, calls, sleeps, judgment, poll_data>>

\* line 192-88: file.read() returns; empty audio is rejected, otherwise
\* transcribe_with_assemblyai starts and posts the upload
ReadAudio(r) ==
    /\ pc[r] = "read"
    /\ LET audio_bytes == file[r]
       IN  IF not_bytes(audio_bytes)
           THEN /\ Finish(r, HTTPException(400, "Empty audio file"), "HTTPException")
                /\ UNCHANGED calls
           ELSE IF ASSEMBLYAI_API_KEY[r] = ""
           THEN /\ Finish(r, OnTranscribeError("RuntimeError: ASSEMBLYAI_API_KEY"),
                          "RuntimeError: ASSEMBLYAI_API_KEY")
                /\ UNCHANGED calls
           ELSE /\ calls' = [calls EXCEPT ![r] = Append(@, Call("upload", audio_bytes))]
                /\ pc' = [pc EXCEPT ![r] = "upload"]
                /\ UNCHANGED <<response, exc>>
    /\ UNCHANGED <<ASSEMBLYAI_API_KEY, DEEPSEEK_API_KEY, sentence_id, file, ref_text,
                   upload_url, transcript_id, user_text, sleeps, judgment, poll_data>>

\* the upload is posted once more after a failed upload
UploadReply_retry(r, reply) ==
    /\ pc[r] = "upload"
    /\ LET res == UploadResult(reply)
       IN  IF res.ok
           THEN /\ upload_url' = [upload_url EXCEPT ![r] = res.val.v]
                /\ calls' = [calls EXCEPT
                       ![r] = Append(Settle(@, "ok"), Call("create", res.val.v))]
                /\ pc' = [pc EXCEPT ![r] = "create"]
                /\ UNCHANGED <<response, exc>>
           ELSE IF Len(calls[r]) < 2
           THEN /\ calls' = [calls EXCEPT
                       ![r] = Append(Settle(@, "fail"), Call("upload", file[r]))]
                /\ UNCHANGED <<pc, response, exc, upload_url>>
           ELSE /\ calls' = [calls EXCEPT ![r] = Settle(@, "fail")]
                /\ Finish(r, OnTranscribeError(res.exc), res.exc)
                /\ UNCHANGED upload_url
    /\ UNCHANGED <<ASSEMBLYAI_API_KEY, DEEPSEEK_API_KEY, sentence_id, file, ref_text,
                   transcript_id, user_text, sleeps, judgment, poll_data>>

\* line 84-106: the upload's reply; on success the job is created from upload_url
UploadReply(r, reply) ==
    /\ pc[r] = "upload"
    /\ LET res == UploadResult(reply)
       IN  IF res.ok
           THEN /\ upload_url' = [upload_url EXCEPT ![r] = res.val.v]
                /\ calls' = [calls EXCEPT
                       ![r] = Append(Settle(@, "ok"), Call("create", res.val.v))]
                /\ pc' = [pc EXCEPT ![r] = "create"]
                /\ UNCHANGED <<response, exc>>
           ELSE /\ calls' = [calls EXCEPT ![r] = Settle(@, "fail")]
                /\ Finish(r, OnTranscribeError(res.exc), res.exc)
                /\ UNCHANGED upload_url
    /\ UNCHANGED <<ASSEMBLYAI_API_KEY, DEEPSEEK_API_KEY, sentence_id, file, ref_text,
                   transcript_id, user_text, sleeps, judgment, poll_data>>

\* the status of the job is asked for even when its creation failed
CreateReply_poll_anyway(r, reply) ==
    /\ pc[r] = "create"
    /\ LET res == CreateResult(reply)
       IN  /\ transcript_id' = [transcript_id EXCEPT ![r] = IF res.ok THEN res.val.v ELSE @]
           /\ calls' = [calls EXCEPT
                  ![r] = Append(Settle(@, IF res.ok THEN "ok" ELSE "fail"),
                                Call("poll", transcript_id'[r]))]
           /\ pc' = [pc EXCEPT ![r] = "poll"]
           /\ UNCHANGED <<response, exc>>
    /\ UNCHANGED <<ASSEMBLYAI_API_KEY, DEEPSEEK_API_KEY, sentence_id, file, ref_text,
                   upload_url, user_text, sleeps, judgment, poll_data>>

\* line 102-114: the job creation's reply; on success the first poll goes out
CreateReply(r, reply) ==
    /\ pc[r] = "create"
    /\ LET res == CreateResult(reply)
       IN  IF res.ok
           THEN /\ transcript_id' = [transcript_id EXCEPT ![r] = res.val.v]
                /\ calls' = [calls EXCEPT
                       ![r] = Append(Settle(@, "ok"), Call("poll", res.val.v))]
                /\ pc' = [pc EXCEPT ![r] = "poll"]
                /\ UNCHANGED <<response, exc>>
           ELSE /\ calls' = [calls EXCEPT ![r] = Settle(@, "fail")]
                /\ Finish(r, OnTranscribeError(res.exc), res.exc)
                /\ UNCHANGED transcript_id
    /\ UNCHANGED <<ASSEMBLYAI_API_KEY, DEEPSEEK_API_KEY, sentence_id, file, ref_text,
                   upload_url, user_text, sleeps, judgment, poll_data>>

\* the check of DEEPSEEK_API_KEY is missing
StartGrading_no_key_check(r, text) ==
    /\ user_text' = [user_text EXCEPT ![r] = text]
    /\ calls' = [calls EXCEPT
           ![r] = Append(Settle(@, "completed"), Call("grade", <<ref_text[r], text>>))]
    /\ pc' = [pc EXCEPT ![r] = "grade"]
    /\ UNCHANGED <<response, exc>>

\* user_text kept in a module-level global, shared by all requests
StartGrading_shared(r, text) ==
    /\ user_text' = [q \in Reqs |-> text]
    /\ IF DEEPSEEK_API_KEY[r] = ""
       THEN /\ Finish(r, OnGradeError("RuntimeError: DEEPSEEK_API_KEY"),
                      "RuntimeError: DEEPSEEK_API_KEY")
            /\ calls' = [calls EXCEPT ![r] = Settle(@, "completed")]
       ELSE /\ calls' = [calls EXCEPT
                   ![r] = Append(Settle(@, "completed"),
                                 Call("grade", <<ref_text[r], text>>))]
            /\ pc' = [pc EXCEPT ![r] = "grade"]
            /\ UNCHANGED <<response, exc>>

\* line 205, 132-170: grade_with_deepseek starts with the transcript and posts
\* the chat completion
StartGrading(r, text) ==
    /\ user_text' = [user_text EXCEPT ![r] = text]
    /\ IF DEEPSEEK_API_KEY[r] = ""
       THEN /\ Finish(r, OnGradeError("RuntimeError: DEEPSEEK_API_KEY"),
                      "RuntimeError: DEEPSEEK_API_KEY")
            /\ calls' = [calls EXCEPT ![r] = Settle(@, "completed")]
       ELSE /\ calls' = [calls EXCEPT
                   ![r] = Append(Settle(@, "completed"),
                                 Call("grade", <<ref_text[r], text>>))]
            /\ pc' = [pc EXCEPT ![r] = "grade"]
            /\ UNCHANGED <<response, exc>>

\* line 114-126: a status poll's reply
PollReply(r, reply) ==
    /\ pc[r] = "poll"
    /\ poll_data' = [poll_data EXCEPT ![r] = IF ResponseJson(reply).ok
                                               THEN ResponseJson(reply).val ELSE @]
    /\ LET res == PollResult(reply)
       IN  CASE res.kind = "return" ->
                  /\ StartGrading(r, res.text)
                  /\ UNCHANGED sleeps
             [] res.kind = "raise" ->
                  /\ calls' = [calls EXCEPT
                         ![r] = Settle(@, IF res.exc = "RuntimeError: Transcription error from AssemblyAI"
                                          THEN "error" ELSE "fail")]
                  /\ Finish(r, OnTranscribeError(res.exc), res.exc)
                  /\ UNCHANGED <<user_text, sleeps, judgment>>
             [] res.kind = "sleep" ->
                  /\ calls' = [calls EXCEPT ![r] = Settle(@, "pending")]
                  /\ sleeps' = [sleeps EXCEPT ![r] = @ + 1]
                  /\ pc' = [pc EXCEPT ![r] = "sleep"]
                  /\ UNCHANGED <<user_text, response, exc>>
    /\ UNCHANGED <<ASSEMBLYAI_API_KEY, DEEPSEEK_API_KEY, sentence_id, file, ref_text,
                   upload_url, transcript_id, judgment>>

\* the for loop sits in a while True: once exhausted it starts over
SleepDone_loop_restarts(r) ==
    /\ pc[r] = "sleep"
    /\ IF NumCalls(r, "poll") < MaxPolls
       THEN /\ calls' = [calls EXCEPT ![r] = Append(@, Call("poll", transcript_id[r]))]
            /\ UNCHANGED sleeps
       ELSE /\ calls' = [calls EXCEPT
                   ![r] = Append(SubSeq(@, 1, 2), Call("poll", transcript_id[r]))]
            /\ sleeps' = [sleeps EXCEPT ![r] = 0]
    /\ pc' = [pc EXCEPT ![r] = "poll"]
    /\ UNCHANGED <<ASSEMBLYAI_API_KEY, DEEPSEEK_API_KEY, sentence_id, file, ref_text,
                   upload_url, transcript_id, user_text, judgment, poll_data,
                   response, exc>>

\* line 126, 113-114, 128: the sleep is over; the loop polls again or is exhausted
SleepDone(r) ==
    /\ pc[r] = "sleep"
    /\ IF NumCalls(r, "poll") < MaxPolls
       THEN /\ calls' = [calls EXCEPT ![r] = Append(@, Call("poll", transcript_id[r]))]
            /\ pc' = [pc EXCEPT ![r] = "poll"]
            /\ UNCHANGED <<response, exc>>
       ELSE /\ Finish(r, OnTranscribeError("RuntimeError: Transcription timeout"),
                      "RuntimeError: Transcription timeout")
            /\ UNCHANGED calls
    /\ UNCHANGED <<ASSEMBLYAI_API_KEY, DEEPSEEK_API_KEY, sentence_id, file, ref_text,
                   upload_url, transcript_id, user_text, sleeps, judgment, poll_data>>

\* line 170-176, 206-212: the grading reply; the judgment is merged and returned
GradeReply(r, reply) ==
    /\ pc[r] = "grade"
    /\ LET eval_result == GradeResult(reply)
       IN  IF eval_result.ok
           THEN LET merged == Merge(eval_result.val, sentence_id[r], user_text[r])
                IN  /\ calls' = [calls EXCEPT ![r] = Settle(@, "ok")]
                    /\ judgment' = [judgment EXCEPT ![r] = eval_result.val]
                    /\ IF merged.ok
                       THEN Finish(r, Success(merged.val), "")
                       ELSE Finish(r, UnhandledError, merged.exc)
           ELSE /\ calls' = [calls EXCEPT ![r] = Settle(@, "fail")]
                /\ Finish(r, OnGradeError(eval_result.exc), eval_result.exc)
                /\ UNCHANGED judgment
    /\ UNCHANGED <<ASSEMBLYAI_API_KEY, DEEPSEEK_API_KEY, sentence_id, file, ref_text,
                   upload_url, transcript_id, user_text, sleeps, poll_data>>

Next ==
    \E r \in Reqs :
        \/ \E sid \in SentenceIds, payload \in Audios : Evaluate(r, sid, payload)
        \/ ReadAudio(r)
        \/ \E reply \in UploadReplies : UploadReply(r, reply)
        \/ \E reply \in CreateReplies : CreateReply(r, reply)
        \/ \E reply \in PollReplies : PollReply(r, reply)
        \/ SleepDone(r)
        \/ \E reply \in GradeReplies : GradeReply(r, reply)

Spec == Init /\ [][Next]_vars

----------------------------------------------------------------------------
(* Termination: one request, the providers answering from one reply of each *)
(* kind that leads the pipeline a different way.                            *)

LiveUploadReplies == {Reply(0, NotJson), Reply(200, Obj("upload_url" :> Str("u1")))}

LiveCreateReplies == {Reply(500, NotJson), Reply(200, Obj("id" :> Str("j1")))}

LivePollReplies ==
    {Reply(0, NotJson),
     Reply(200, Obj("status" :> Str("processing"))),
     Reply(200, Obj("status" :> Str("error") @@ "error" :> Str("bad audio"))),
     Reply(200, Obj("status" :> Str("completed") @@ "text" :> Str(<<"a", " ">>)))}

LiveGradeReplies ==
    {Reply(500, NotJson), Envelope(NotJson), Envelope(List(<<>>)), Envelope(Obj(GoodJudgment))}

\* what a started request does next: every await of the pipeline (the read of
\* the upload, an exchange under its httpx timeout, the one-second sleep)
\* comes back
Advance(r) ==
    \/ ReadAudio(r)
    \/ \E reply \in LiveUploadReplies : UploadReply(r, reply)
    \/ \E reply \in LiveCreateReplies : CreateReply(r, reply)
    \/ \E reply \in LivePollReplies : PollReply(r, reply)
    \/ SleepDone(r)
    \/ \E reply \in LiveGradeReplies : GradeReply(r, reply)

NextLive ==
    \E r \in Reqs :
        \/ \E sid \in SentenceIds, payload \in Audios : Evaluate(r, sid, payload)
        \/ Advance(r)

\* no await stays pending forever; which reply comes back is not constrained,
\* and neither is the arrival of requests
SpecLive == Init /\ [][NextLive]_vars /\ \A r \in Reqs : WF_vars(Advance(r))

----------------------------------------------------------------------------
(* Two runs side by side: each request is served by a process of its own    *)
(* (its own keys), and the providers answer from one representative of each *)
(* kind of reply, so that two whole runs fit in one state.                  *)

RunSentenceIds == {"s1", "s9"}

RunUploadReplies == {Reply(500, NotJson), Reply(200, Obj("upload_url" :> Str("u1")))}

RunCreateReplies == {Reply(0, NotJson), Reply(200, Obj("id" :> Str("j1")))}

RunPollReplies ==
    {Reply(500, NotJson),
     Reply(200, Obj("status" :> Str("processing"))),
     Reply(200, Obj("status" :> Str("error") @@ "error" :> Str("bad audio"))),
     Reply(200, Obj("status" :> Str("completed") @@ "text" :> Str(<<"a">>)))}

RunGradeReplies ==
    {Reply(0, NotJson), Reply(500, NotJson), Reply(200, Obj(<<>>)),
     Envelope(NotJson), Envelope(List(<<>>)), Envelope(Obj(GoodJudgment))}

InitRuns ==
    /\ ASSEMBLYAI_API_KEY \in [Reqs -> Keys]
    /\ DEEPSEEK_API_KEY \in [Reqs -> Keys]
    /\ pc = [r \in Reqs |-> "idle"]
    /\ sentence_id = [r \in Reqs |-> ""]
    /\ file = [r \in Reqs |-> <<>>]
    /\ ref_text = [r \in Reqs |-> ""]
    /\ upload_url = [r \in Reqs |-> ""]
    /\ transcript_id = [r \in Reqs |-> ""]
    /\ poll_data = [r \in Reqs |-> NoData]
    /\ user_text = [r \in Reqs |-> <<>>]
    /\ calls = [r \in Reqs |-> <<>>]
    /\ sleeps = [r \in Reqs |-> 0]
    /\ judgment = [r \in Reqs |-> NoJudgment]
    /\ exc = [r \in Reqs |-> ""]
    /\ response = [r \in Reqs |-> NoResponse]

NextRuns ==
    \E r \in Reqs :
        \/ \E sid \in RunSentenceIds : Evaluate(r, sid, <<7>>)
        \/ ReadAudio(r)
        \/ \E reply \in RunUploadReplies : UploadReply(r, reply)
        \/ \E reply \in RunCreateReplies : CreateReply(r, reply)
        \/ \E reply \in RunPollReplies : PollReply(r, reply)
        \/ SleepDone(r)
        \/ \E reply \in RunGradeReplies : GradeReply(r, reply)

SpecRuns == InitRuns /\ [][NextRuns]_vars

----------------------------------------------------------------------------
(* Two requests in flight in one process: the module globals are the same   *)
(* for both, and the event loop may switch between them at every await.     *)

ConcSentenceIds == {"s1", "s3"}

ConcUploadReplies == {Reply(200, Obj("upload_url" :> Str("u1")))}

ConcCreateReplies == {Reply(200, Obj("id" :> Str("j1")))}

ConcPollReplies ==
    {Reply(500, NotJson),
     Reply(200, Obj("status" :> Str("processing"))),
     Reply(200, Obj("status" :> Str("completed") @@ "text" :> Str(<<"a">>))),
     Reply(200, Obj("status" :> Str("completed") @@ "text" :> Str(<<"a", "a", " ">>)))}

ConcGradeReplies ==
    {Envelope(Obj(GoodJudgment)),
     Envelope(Obj(SetItem(GoodJudgment, "overall_score", Num(0))))}

InitConc ==
    /\ ASSEMBLYAI_API_KEY \in {[r \in Reqs |-> k] : k \in Keys}
    /\ DEEPSEEK_API_KEY \in {[r \in Reqs |-> k] : k \in Keys}
    /\ pc = [r \in Reqs |-> "idle"]
    /\ sentence_id = [r \in Reqs |-> ""]
    /\ file = [r \in Reqs |-> <<>>]
    /\ ref_text = [r \in Reqs |-> ""]
    /\ upload_url = [r \in Reqs |-> ""]
    /\ transcript_id = [r \in Reqs |-> ""]
    /\ poll_data = [r \in Reqs |-> NoData]
    /\ user_text = [r \in Reqs |-> <<>>]
    /\ calls = [r \in Reqs |-> <<>>]
    /\ sleeps = [r \in Reqs |-> 0]
    /\ judgment = [r \in Reqs |-> NoJudgment]
    /\ exc = [r \in Reqs |-> ""]
    /\ response = [r \in Reqs |-> NoResponse]

NextConc ==
    \E r \in Reqs :
        \/ \E sid \in ConcSentenceIds : Evaluate(r, sid, <<7>>)
        \/ ReadAudio(r)
        \/ \E reply \in ConcUploadReplies : UploadReply(r, reply)
        \/ \E reply \in ConcCreateReplies : CreateReply(r, reply)
        \/ \E reply \in ConcPollReplies : PollReply(r, reply)
        \/ SleepDone(r)
        \/ \E reply \in ConcGradeReplies : GradeReply(r, reply)

SpecConc == InitConc /\ [][NextConc]_vars

----------------------------------------------------------------------------
(* Vocabulary of the properties *)

CatalogIds == {LESSON_DB[i].id : i \in DOMAIN LESSON_DB}

Started(r) == pc[r] \notin {"idle", "off"}

Done(r) == pc[r] = "done"

Detail(r) ==
    IF HasKey(response[r].body, "detail") THEN response[r].body.v["detail"].v ELSE ""

\* the number of status polls that were answered with a non-terminal status
PendingPolls(r) ==
    Cardinality({i \in DOMAIN calls[r] :
                    calls[r][i].kind = "poll" /\ calls[r][i].out = "pending"})

\* the request passed both validations of evaluate
Validated(r) == Started(r) /\ sentence_id[r] \in CatalogIds /\ file[r] # <<>>

\* the Transcriber failed: no key, an exchange that failed, a provider-reported
\* error, or the polling ceiling
TranscriberFailed(r) ==
    \/ ASSEMBLYAI_API_KEY[r] = ""
    \/ \E i \in DOMAIN calls[r] :
          /\ calls[r][i].kind \in {"upload", "create", "poll"}
          /\ calls[r][i].out \in {"fail", "error"}
    \/ PendingPolls(r) = 30

\* the Transcriber returned a transcript
Transcribed(r) ==
    \E i \in DOMAIN calls[r] : calls[r][i].kind = "poll" /\ calls[r][i].out = "completed"

----------------------------------------------------------------------------
(* Properties *)

\* C1: a request whose sentence_id is not in the catalog ends with 404
\* "Sentence not found" as soon as it is looked at, and never issues an upload,
\* a job creation, a status poll or a grading request.
C1_UnknownSentenceNotFoundNoCalls ==
    \A r \in Reqs :
        (Started(r) /\ sentence_id[r] \notin CatalogIds)
            => /\ Done(r)
               /\ response[r].status_code = 404
               /\ Detail(r) = "Sentence not found"
               /\ calls[r] = <<>>

C1_Witness ==
    \E r \in Reqs :
        /\ Done(r) /\ sentence_id[r] = "s9" /\ file[r] # <<>>
        /\ ASSEMBLYAI_API_KEY[r] # "" /\ response[r].status_code = 404

\* C2 as stated: every finished request with an empty payload got 400,
\* whatever its sentence_id.
C2_EmptyAudioAlwaysInvalidInput ==
    \A r \in Reqs : (Done(r) /\ file[r] = <<>>) => response[r].status_code = 400

\* C2 amended: a finished request with an empty payload got 400 "Empty audio
\* file" when its sentence_id is in the catalog, and 404 when it is not.
C2_EmptyAudioInvalidInputIfResolved ==
    \A r \in Reqs :
        (Done(r) /\ file[r] = <<>>)
            => IF sentence_id[r] \in CatalogIds
               THEN response[r].status_code = 400 /\ Detail(r) = "Empty audio file"
               ELSE response[r].status_code = 404

C2_Witness ==
    \E r \in Reqs :
        /\ Done(r) /\ file[r] = <<>> /\ sentence_id[r] = "s3"
        /\ response[r].status_code = 400

\* C3: a request with an empty payload never issues any exchange with the
\* Transcriber or the Grader.
C3_EmptyAudioNoCalls ==
    \A r \in Reqs :
        (Started(r) /\ file[r] = <<>>)
            => /\ TranscriberCalls(r) = 0 /\ GraderCalls(r) = 0 /\ sleeps[r] = 0
               /\ pc[r] \in {"read", "done"}

C3_Witness ==
    \E r \in Reqs :
        /\ Done(r) /\ file[r] = <<>> /\ sentence_id[r] \in CatalogIds
        /\ ASSEMBLYAI_API_KEY[r] # "" /\ calls[r] = <<>>

\* C4: no request ever issues a 31st status poll, and once 30 polls were
\* answered with a non-terminal status the request is in its last sleep or has
\* failed with the timeout error (500 "Transcription failed").
C4_PollingBounded ==
    \A r \in Reqs :
        /\ NumCalls(r, "poll") <= 30
        /\ PendingPolls(r) = 30
              => /\ pc[r] \in {"sleep", "done"}
                 /\ Done(r) => /\ exc[r] = "RuntimeError: Transcription timeout"
                               /\ response[r].status_code = 500
                               /\ Detail(r) = "Transcription failed"
        /\ (Done(r) /\ exc[r] = "RuntimeError: Transcription timeout")
              => PendingPolls(r) = 30

C4_Witness ==
    \E r \in Reqs :
        /\ Done(r) /\ PendingPolls(r) = 30 /\ NumCalls(r, "poll") = 30
        /\ exc[r] = "RuntimeError: Transcription timeout"

\* the grading request a request issued, if any
GradeArgs(r) == {calls[r][i].arg : i \in {j \in DOMAIN calls[r] : calls[r][j].kind = "grade"}}

\* C5: when transcription succeeded and the Grader returned a JSON object, the
\* response is a 200 whose sentence_id is the request's, whose user_text is the
\* transcript (the one sent to the Grader with the reference text), and in which
\* every required field the judgment carries is unchanged, also when the
\* judgment has a sentence_id or user_text of its own.
C5_MergeKeepsJudgmentAndIds ==
    \A r \in Reqs :
        (Done(r) /\ Transcribed(r) /\ judgment[r].t = "object")
            => /\ response[r].status_code = 200
               /\ response[r].body.t = "object"
               /\ response[r].body.v["sentence_id"] = Str(sentence_id[r])
               /\ response[r].body.v["user_text"] = Str(user_text[r])
               /\ GradeArgs(r) = {<<ref_text[r], user_text[r]>>}
               /\ \A k \in RequiredFields \cap DOMAIN judgment[r].v :
                      /\ k \in DOMAIN response[r].body.v
                      /\ response[r].body.v[k] = judgment[r].v[k]
               /\ DOMAIN response[r].body.v
                      = DOMAIN judgment[r].v \cup {"sentence_id", "user_text"}

C5_Witness ==
    \E r \in Reqs :
        /\ Done(r) /\ response[r].status_code = 200
        /\ HasKey(judgment[r], "sentence_id")
        /\ judgment[r].v["sentence_id"] # Str(sentence_id[r])
        /\ HasKey(judgment[r], "user_text")
        /\ judgment[r].v["user_text"] # Str(user_text[r])
        /\ RequiredFields \subseteq DOMAIN judgment[r].v

\* C6: a 200 response that carries an integer overall_score carries one
\* between 0 and 100.
C6_ScoreInRange ==
    \A r \in Reqs :
        (/\ Done(r) /\ response[r].status_code = 200
         /\ HasKey(response[r].body, "overall_score")
         /\ response[r].body.v["overall_score"].t = "int")
            => response[r].body.v["overall_score"].v \in 0..100

\* C7: a 200 response carries every one of the seven required judgment fields.
C7_RequiredFieldsPresent ==
    \A r \in Reqs :
        (Done(r) /\ response[r].status_code = 200)
            => /\ response[r].body.t = "object"
               /\ RequiredFields \subseteq DOMAIN response[r].body.v

\* C8: a validated request whose Transcriber failed ends with 500
\* "Transcription failed" and has issued no grading request.
C8_TranscriberFailureWrapped ==
    \A r \in Reqs :
        (Validated(r) /\ TranscriberFailed(r))
            => /\ GraderCalls(r) = 0
               /\ judgment[r] = NoJudgment
               /\ Done(r) => /\ response[r].status_code = 500
                             /\ Detail(r) = "Transcription failed"

C8_Witness ==
    \E r \in Reqs :
        /\ Done(r) /\ Validated(r) /\ DEEPSEEK_API_KEY[r] # ""
        /\ calls[r] # <<>>
        /\ calls[r][Len(calls[r])].kind = "poll"
        /\ calls[r][Len(calls[r])].out = "error"
        /\ Detail(r) = "Transcription failed"

\* C9: a request whose transcription succeeded and whose Grader did not come
\* back with a JSON object (no key, failed exchange, unparseable reply, or a
\* reply that is a list, a string, a number or null) ends with 500 "Grading
\* failed".
C9_GraderFailureWrapped ==
    \A r \in Reqs :
        (Done(r) /\ Transcribed(r) /\ judgment[r].t # "object")
            => /\ response[r].status_code = 500
               /\ Detail(r) = "Grading failed"

\* two finished runs of the same request
SameRequest(a, b) ==
    /\ Done(a) /\ Done(b)
    /\ sentence_id[a] = sentence_id[b] /\ file[a] = file[b]

\* the Grader did not come back with a judgment: it was unavailable, or its
\* reply did not parse to a JSON object
GraderFailed(r) == Validated(r) /\ Transcribed(r) /\ judgment[r].t # "object"

\* C10: two runs of the same request in which the Transcriber failed, for
\* whatever reasons, give the caller the same response; and so do two runs of
\* the same request in which the Grader failed, for whatever reasons.
C10_FailureCauseNotObservable ==
    \A a, b \in Reqs :
        SameRequest(a, b)
            => /\ (/\ Validated(a) /\ TranscriberFailed(a)
                   /\ Validated(b) /\ TranscriberFailed(b))
                      => response[a] = response[b]
               /\ (GraderFailed(a) /\ GraderFailed(b))
                      => response[a] = response[b]

\* the Transcriber's half of C10 taken alone
C10_TranscriberCauseNotObservable ==
    \A a, b \in Reqs :
        (/\ SameRequest(a, b)
         /\ Validated(a) /\ TranscriberFailed(a)
         /\ Validated(b) /\ TranscriberFailed(b))
            => response[a] = response[b]

\* the positions in the log of a request's exchanges of one kind
CallsOf(r, kind) == {i \in DOMAIN calls[r] : calls[r][i].kind = kind}

\* C11: a request issues at most one upload, one job creation and one grading
\* request, and an exchange that failed (or reported a provider error) is the
\* last exchange of its request: nothing is issued again after it.
C11_NoRetries ==
    \A r \in Reqs :
        /\ NumCalls(r, "upload") <= 1
        /\ NumCalls(r, "create") <= 1
        /\ NumCalls(r, "grade") <= 1
        /\ \A i \in DOMAIN calls[r] :
               calls[r][i].out \in {"fail", "error"}
                   => /\ i = Len(calls[r])
                      /\ Done(r)
                      /\ response[r].status_code = 500

C11_Witness ==
    \E r \in Reqs :
        /\ Done(r)
        /\ Len(calls[r]) = 1
        /\ calls[r][1].kind = "upload" /\ calls[r][1].out = "fail"

\* the status the provider last reported for the request's job, if any
Reported(r) ==
    IF HasKey(poll_data[r], "status") /\ poll_data[r].v["status"].t = "str"
    THEN poll_data[r].v["status"].v
    ELSE ""

\* the state of the request's remote job: "none" before it is created,
\* "submitted" from its creation until a status reply is parsed, "polling"
\* while the statuses reported are not terminal, then the terminal state the
\* provider reported, or "timed_out" when the polling ceiling was hit
JobState(r) ==
    IF ~ \E i \in CallsOf(r, "create") : calls[r][i].out = "ok" THEN "none"
    ELSE IF Reported(r) \in {"completed", "error"} THEN Reported(r)
    ELSE IF exc[r] = "RuntimeError: Transcription timeout" THEN "timed_out"
    ELSE IF poll_data[r] = NoData THEN "submitted"
    ELSE "polling"

JobTransitions ==
    {<<"none", "submitted">>,
     <<"submitted", "polling">>, <<"submitted", "completed">>, <<"submitted", "error">>,
     <<"polling", "completed">>, <<"polling", "error">>, <<"polling", "timed_out">>}

\* C12: a job starts in "submitted" when it is created, moves only along
\* submitted -> polling -> {completed, error, timed_out} (a first status that
\* is already terminal skips "polling"), and once it is completed, error or
\* timed_out it stays so and no further status poll is issued for it.
C12_JobStateMachine ==
    [][\A r \in Reqs :
          /\ JobState(r)' # JobState(r) => <<JobState(r), JobState(r)'>> \in JobTransitions
          /\ JobState(r) \in {"completed", "error", "timed_out"}
                => /\ JobState(r)' = JobState(r)
                   /\ NumCalls(r, "poll")' = NumCalls(r, "poll")
                   /\ sleeps'[r] = sleeps[r]]_vars

C12_Witness ==
    \E r \in Reqs :
        /\ Done(r) /\ JobState(r) = "error"
        /\ NumCalls(r, "poll") = 3 /\ PendingPolls(r) = 2

\* everything a request owns
Own(r) ==
    <<pc[r], sentence_id[r], file[r], ref_text[r], upload_url[r], transcript_id[r],
      poll_data[r], user_text[r], calls[r], sleeps[r], judgment[r], exc[r], response[r]>>

\* the request took part in the step
Stepped(r) == pc'[r] # pc[r] \/ calls'[r] # calls[r]

\* the reference text the catalog holds for a sentence id
CatalogText(sid) == LESSON_DB[CHOOSE i \in DOMAIN LESSON_DB : LESSON_DB[i].id = sid].text

\* the transcript the provider returned for the request's own job
OwnTranscript(r) == poll_data[r].v["text"].v

\* C13: under every interleaving of two requests, a step of one request
\* changes nothing the other owns and nothing global, and a 200 response
\* carries its request's sentence_id, the trimmed transcript of its own job
\* as user_text, and the judgment returned to the grading request that was
\* issued for its own reference text and transcript.
C13_RequestsIndependent ==
    /\ [][/\ \A r, q \in Reqs : (r # q /\ Stepped(r)) => Own(q)' = Own(q)
          /\ UNCHANGED <<ASSEMBLYAI_API_KEY, DEEPSEEK_API_KEY>>]_vars
    /\ [](\A r \in Reqs :
            (Done(r) /\ response[r].status_code = 200)
                => /\ response[r].body.v["sentence_id"] = Str(sentence_id[r])
                   /\ \E t \in {<<"a">>, <<"a", "a">>} :
                         /\ OwnTranscript(r) \in {t, Append(t, " ")}
                         /\ response[r].body.v["user_text"] = Str(t)
                         /\ GradeArgs(r) = {<<CatalogText(sentence_id[r]), t>>}
                   /\ \A k \in DOMAIN judgment[r].v :
                         response[r].body.v[k] = judgment[r].v[k])

C13_Witness ==
    /\ Done("r1") /\ response["r1"].status_code = 200
    /\ Done("r2") /\ response["r2"].status_code = 200
    /\ sentence_id["r1"] # sentence_id["r2"]
    /\ user_text["r1"] # user_text["r2"]
    /\ judgment["r1"] # judgment["r2"]
    /\ sleeps["r1"] = 1 /\ sleeps["r2"] = 2

\* C14: without the ASR key a validated request fails inside transcribe before
\* any exchange; without the LLM key grade fails before its exchange, once the
\* transcript is there; and a request that ends in validation ends with 404
\* or 400 whatever the keys are.
C14_MissingKeyFailsFast ==
    \A r \in Reqs :
        /\ (Validated(r) /\ ASSEMBLYAI_API_KEY[r] = "")
              => /\ calls[r] = <<>>
                 /\ pc[r] \in {"read", "done"}
                 /\ Done(r) => /\ exc[r] = "RuntimeError: ASSEMBLYAI_API_KEY"
                               /\ response[r] = HTTPException(500, "Transcription failed")
        /\ (Started(r) /\ DEEPSEEK_API_KEY[r] = "")
              => /\ GraderCalls(r) = 0
                 /\ pc[r] # "grade"
                 /\ Transcribed(r)
                       => /\ Done(r)
                          /\ exc[r] = "RuntimeError: DEEPSEEK_API_KEY"
                          /\ response[r] = HTTPException(500, "Grading failed")
        /\ (Done(r) /\ sentence_id[r] \notin CatalogIds)
              => response[r] = HTTPException(404, "Sentence not found")
        /\ (Done(r) /\ sentence_id[r] \in CatalogIds /\ file[r] = <<>>)
              => response[r] = HTTPException(400, "Empty audio file")

C14_Witness ==
    \E r \in Reqs :
        /\ Done(r) /\ Transcribed(r)
        /\ ASSEMBLYAI_API_KEY[r] # "" /\ DEEPSEEK_API_KEY[r] = ""
        /\ exc[r] = "RuntimeError: DEEPSEEK_API_KEY"

\* a request that ended in validation although a key is missing
C14_WitnessValidation ==
    \E r \in Reqs :
        /\ Done(r) /\ ASSEMBLYAI_API_KEY[r] = "" /\ DEEPSEEK_API_KEY[r] = ""
        /\ sentence_id[r] \in CatalogIds /\ file[r] = <<>>
        /\ response[r].status_code = 400

\* the last status reply parsed says completed and its text is missing, empty
\* or made of white space only
BlankCompleted(r) ==
    /\ Reported(r) = "completed"
    /\ \/ ~ HasKey(poll_data[r], "text")
       \/ /\ poll_data[r].v["text"].t = "str"
          /\ \A i \in DOMAIN poll_data[r].v["text"].v : IsSpace(poll_data[r].v["text"].v[i])

\* C15: when the job completes with a missing, empty or white-space text, the
\* transcript is the empty string, transcription has succeeded, and the request
\* goes on to grading with user_text "": it never ends with "Transcription
\* failed", and with the grading key set the one grading request carries the
\* reference text and "".
C15_EmptyTranscriptIsValid ==
    \A r \in Reqs :
        BlankCompleted(r)
            => /\ Transcribed(r)
               /\ user_text[r] = <<>>
               /\ ~ TranscriberFailed(r)
               /\ response[r] # HTTPException(500, "Transcription failed")
               /\ IF DEEPSEEK_API_KEY[r] = ""
                  THEN response[r] = HTTPException(500, "Grading failed")
                  ELSE GradeArgs(r) = {<<ref_text[r], <<>>>>}
               /\ (Done(r) /\ response[r].status_code = 200)
                      => response[r].body.v["user_text"] = Str(<<>>)

C15_Witness ==
    \E r \in Reqs :
        /\ Done(r) /\ response[r].status_code = 200
        /\ BlankCompleted(r)
        /\ HasKey(poll_data[r], "text") /\ poll_data[r].v["text"] = Str(<<" ", " ">>)
        /\ GradeArgs(r) = {<<ref_text[r], <<>>>>}

\* the same with a completed reply that has no text at all
C15_WitnessAbsent ==
    \E r \in Reqs :
        /\ Done(r) /\ response[r].status_code = 200
        /\ BlankCompleted(r) /\ ~ HasKey(poll_data[r], "text")

\* C16: in a 200 response, each of accuracy, fluency and integrity that the
\* body carries holds one of the three level words.
C16_LevelsAreEnumerated ==
    \A r \in Reqs :
        (Done(r) /\ response[r].status_code = 200)
            => \A f \in {"accuracy", "fluency", "integrity"} :
                   HasKey(response[r].body, f)
                       => \E l \in Levels : response[r].body.v[f] = Str(l)

\* C17: a started request eventually ends; it has no response before it ends,
\* the response it ends with has one of the statuses 200, 404, 400 and 500,
\* and once ended the request stays ended with that same response.
C17_EveryRequestTerminates ==
    /\ \A r \in Reqs : Started(r) ~> Done(r)
    /\ [](\A r \in Reqs :
            IF Done(r) THEN response[r].status_code \in {200, 404, 400, 500}
                       ELSE response[r] = NoResponse)
    /\ [][\A r \in Reqs : Done(r) => (Done(r)' /\ response'[r] = response[r])]_vars

\* a request that ended by running into the polling ceiling
C17_Witness ==
    \E r \in Reqs :
        /\ Done(r) /\ response[r].status_code = 500
        /\ NumCalls(r, "poll") = MaxPolls /\ sleeps[r] = MaxPolls

\* the exchanges of the request are in the order of transcribe: the upload of
\* the audio first, the creation second and only after a successful upload,
\* for the reference the upload returned, polls from the third on and only
\* after a successful creation, each for the id the creation returned and
\* each after a poll that said to go on; a failed exchange is the last one
InOrder(r) ==
    \A i \in DOMAIN calls[r] :
        /\ calls[r][i].kind = "upload" => (i = 1 /\ calls[r][i].arg = file[r])
        /\ calls[r][i].kind = "create"
              => /\ i = 2
                 /\ calls[r][1].kind = "upload" /\ calls[r][1].out = "ok"
                 /\ upload_url[r] \in Urls
                 /\ calls[r][i].arg = upload_url[r]
        /\ calls[r][i].kind = "poll"
              => /\ i >= 3
                 /\ calls[r][2].kind = "create" /\ calls[r][2].out = "ok"
                 /\ transcript_id[r] \in JobIds
                 /\ calls[r][i].arg = transcript_id[r]
                 /\ \A j \in 3 .. (i - 1) :
                        calls[r][j].kind = "poll" /\ calls[r][j].out = "pending"
        /\ (calls[r][i].kind \in {"upload", "create", "poll"}
               /\ calls[r][i].out \in {"fail", "error"})
              => /\ i = Len(calls[r])
                 /\ Done(r) /\ response[r] = HTTPException(500, "Transcription failed")

\* C18: at every moment the exchanges issued so far are in the order upload,
\* job creation, status polls, each issued only after the one before it
\* succeeded and with what that one returned, and nothing follows a failed
\* exchange; the record of the exchanges only grows, by one exchange at a time,
\* and only the outcome of the exchange in flight is ever filled in.
C18_ExchangesInOrder ==
    /\ [](\A r \in Reqs : InOrder(r))
    /\ [][\A r \in Reqs :
            /\ Len(calls'[r]) \in {Len(calls[r]), Len(calls[r]) + 1}
            /\ \A i \in DOMAIN calls[r] :
                   /\ calls'[r][i].kind = calls[r][i].kind
                   /\ calls'[r][i].arg = calls[r][i].arg
                   /\ calls[r][i].out # "inflight" => calls'[r][i].out = calls[r][i].out]_vars

C18_Witness ==
    \E r \in Reqs :
        /\ Done(r) /\ Len(calls[r]) = 4
        /\ calls[r][1].out = "ok" /\ calls[r][2].out = "ok"
        /\ calls[r][2].arg = "u2" /\ calls[r][3].arg = "j2"
        /\ calls[r][3].out = "pending" /\ calls[r][4].out = "fail"

\* C19: the exception with which transcribe fails after a poll reported
\* status error carries the cause the provider reported: no status reply with
\* another cause makes transcribe raise that same exception.
C19_ErrorCarriesCause ==
    \A r \in Reqs :
        (Done(r) /\ Reported(r) = "error")
            => \A reply \in PollReplies :
                   (PollResult(reply).kind = "raise" /\ PollResult(reply).exc = exc[r])
                       => /\ ResponseJson(reply).ok
                          /\ HasKey(ResponseJson(reply).val, "error")
                          /\ ResponseJson(reply).val.v["error"] = poll_data[r].v["error"]

\* the rest of C19: the poll that reports error is the last step of the
\* request, which fails with the transcription error and not with the timeout,
\* having slept only between the polls before; the poll that reports completed
\* with a text is the last poll, and the transcript is that text trimmed.
C19_TerminalPollEndsPolling ==
    \A r \in Reqs :
        /\ Reported(r) = "error"
              => /\ Done(r)
                 /\ exc[r] = "RuntimeError: Transcription error from AssemblyAI"
                 /\ exc[r] # "RuntimeError: Transcription timeout"
                 /\ response[r] = HTTPException(500, "Transcription failed")
                 /\ calls[r][Len(calls[r])] =
                        [kind |-> "poll", arg |-> transcript_id[r], out |-> "error"]
                 /\ NumCalls(r, "poll") \in 1 .. MaxPolls
                 /\ PendingPolls(r) = NumCalls(r, "poll") - 1
                 /\ sleeps[r] = NumCalls(r, "poll") - 1
        /\ (/\ Reported(r) = "completed"
            /\ HasKey(poll_data[r], "text") /\ poll_data[r].v["text"].t = "str")
              => /\ Transcribed(r)
                 /\ user_text[r] = strip(poll_data[r].v["text"].v)
                 /\ PendingPolls(r) = NumCalls(r, "poll") - 1
                 /\ sleeps[r] = NumCalls(r, "poll") - 1
                 /\ \A i \in CallsOf(r, "poll") :
                        calls[r][i].out = "completed" => CallsOf(r, "poll") \subseteq 1 .. i

\* the thirtieth poll reports error
C19_WitnessLastPoll ==
    \E r \in Reqs :
        Done(r) /\ Reported(r) = "error" /\ NumCalls(r, "poll") = MaxPolls

====
